---- MODULE Spec2Model ----
(***************************************************************************)
(* State-machine model of src/crawler/crawler.py (fredcamps/linkedin-      *)
(* crawler).                                                               *)
(*                                                                         *)
(* Spec      : the crawler driving the live document (BaseCrawler,         *)
(*             Crawler._expand_items, the section fetchers).               *)
(* SpecParse : the extraction of records from a section snapshot           *)
(*             (Crawler._get_section_elements, _fetch_arbitrary_data,      *)
(*             fetch_experience_data, the Parser class).                   *)
(***************************************************************************)
EXTENDS Integers, Sequences, FiniteSets, TLC

VARIABLES
    authenticated,  \* BaseCrawler.authenticated, set once by __init__
    op,             \* the public method being executed, "none" when idle
    pc,             \* position inside that method
    result,         \* what the method hands to its caller: "none", "ok" or the exception raised
    touched,        \* TRUE once the method has made any call on the web driver
    section,        \* the local `section`: index into the list of found elements, 0 = None
    stage,          \* which _expand_items invocation of the method is running (1 or 2)
    controls,       \* live document: the elements of class element_class under the section
    initial,        \* `controls` as it was when the running invocation started
    depth,          \* interpreter stack depth of the running _expand_items frame
    nfound,         \* len(elements): how many handles the scan of this pass returned
    idx,            \* position of the for loop in `elements` (1-based), 0 before the scan
    passClicks,     \* element.click() calls that went through in the current pass
    stales,         \* StaleElementReferenceException raised on elements in this invocation
    finished,       \* the _expand_items invocations of the method that have returned
    snapshotOf,     \* index of the element whose innerHTML was read, 0 = not read
    kind,           \* SpecParse: which fetch_*_data extraction runs
    fragment,       \* SpecParse: the section snapshot, as its top-level entries
    records         \* SpecParse: what the extraction returned

crawlVars == <<authenticated, op, pc, result, touched, section, stage, controls,
               initial, depth, nfound, idx, passClicks, stales, finished, snapshotOf>>
parseVars == <<kind, fragment, records>>
vars == <<crawlVars, parseVars>>

(***************************************************************************)
(* Program constants and model bounds                                      *)
(***************************************************************************)
\* sys.setrecursionlimit(100)
RecursionLimit == 100

\* Stack frames one web-driver call (find_elements_by_class_name, get_attribute,
\* click) needs below the frame that makes it.  The driver is not part of the
\* repository; any value >= 1 gives the same shape of behaviour.
DriverFrames == 75

\* Most reveal controls a section holds at once.
MaxControls == 3

\* Most elements browser.find_elements_by_class_name returns for a section class.
MaxSections == 2

\* Most stale-reference errors the document produces during one invocation.
MaxStale == 1

(***************************************************************************)
(* The public operations and their fixed configuration                     *)
(***************************************************************************)
SectionOperations ==
    {"fetch_about_data", "fetch_experience_data", "fetch_education_data",
     "fetch_certification_data"}

Operations == SectionOperations \cup {"go_to_profile", "fetch_skills_data"}

\* The element_class of each _expand_items invocation, in call order.
ExpanderClasses(o) ==
    CASE o = "fetch_about_data"      -> <<"lt-line-clamp__more">>
      [] o = "fetch_experience_data" -> <<"inline-show-more-text__button",
                                          "pv-profile-section__see-more-inline">>
      [] OTHER                       -> <<"pv-profile-section__see-more-inline">>

\* Depth of the frame that calls _expand_items when the method is run from
\* main(): <module>, main, run, fetch_experience_data, _get_section_elements,
\* _fetch_experiences_section_html; the other sections go through
\* _fetch_arbitrary_data and _fetch_arbitrary_section_html as well.
CallerFrames(o) == IF o = "fetch_experience_data" THEN 6 ELSE 8

(***************************************************************************)
(* The live document                                                       *)
(***************************************************************************)
\* A reveal control: expanded  <=> get_attribute('aria-expanded') = 'true';
\* clickable <=> displayed and enabled; responsive <=> a click makes it report
\* the expanded state.  The attributes of an expanded control are never read
\* past aria-expanded, and a control that is not clickable does not respond.
Control ==
    {c \in [expanded : BOOLEAN, clickable : BOOLEAN, responsive : BOOLEAN] :
        /\ c.expanded => (c.clickable /\ c.responsive)
        /\ c.responsive => c.clickable}

Document(n) == [1..n -> Control]

Documents == UNION {Document(n) : n \in 0..MaxControls}

Expanded(c) == [expanded |-> TRUE, clickable |-> TRUE, responsive |-> TRUE]

\* What a click that went through does to the document: the control reports
\* expanded if it responds; a responding click may reveal one more control.
ClickEffects(doc, i) ==
    IF ~doc[i].responsive THEN {doc}
    ELSE LET after == [doc EXCEPT ![i] = Expanded(doc[i])]
         IN  {after} \cup
             (IF Len(doc) < MaxControls
                 THEN {Append(after, c) : c \in Control}
                 ELSE {})

(***************************************************************************)
(* BaseCrawler                                                             *)
(***************************************************************************)
OpenGate(auth) == "ok"

\* _validate_authentication: raise Forbidden unless self.authenticated.
_validate_authentication(auth) == IF ~auth THEN "Forbidden" ELSE "ok"

(***************************************************************************)
(* Crawler._expand_items                                                   *)
(***************************************************************************)
\* EC.element_to_be_clickable(element) builds a condition object and never
\* calls it; an object without __bool__/__len__ is truthy.
element_to_be_clickable(c) == TRUE

ClickAnything(c) == TRUE

\* The test of line 214.
ShouldClick(c) == (c.expanded # TRUE) /\ element_to_be_clickable(c)

BreakLoop(i, n) == n + 1

\* except StaleElementReferenceException: continue
AfterStale(i, n) == i + 1

RaiseAlways(d, o) == "raise"

\* A RecursionError raised in the frame at depth d passes through that frame
\* (line 211 and the loop are outside its try) and is caught by the frame that
\* called it, if that is an _expand_items frame (lines 221-224).
OnRecursionError(d, o) == IF d > CallerFrames(o) + 1 THEN "return" ELSE "raise"

\* Number of the pass the frame at depth d runs.
PassOf(d, o) == d - CallerFrames(o)

LastOf(n) == n

\* sections[0]
FirstOf(n) == 1

Idle ==
    /\ op = "none" /\ pc = "idle" /\ result = "none" /\ touched = FALSE
    /\ section = 0 /\ stage = 0 /\ controls = <<>> /\ initial = <<>>
    /\ depth = 0 /\ nfound = 0 /\ idx = 0 /\ passClicks = 0 /\ stales = 0
    /\ finished = <<>> /\ snapshotOf = 0

ParseIdle == kind = "none" /\ fragment = <<>> /\ records = [status |-> "idle", items |-> <<>>]

Init == authenticated \in BOOLEAN /\ Idle /\ ParseIdle

\* The state a method leaves when an exception reaches its caller.
Raise(e) ==
    /\ result' = e
    /\ pc' = "done"

\* _expand_items(section, element_class) is called: a fresh frame, and the
\* document shows whatever controls of that class the section holds.
EnterExpander(st) ==
    /\ stage' = st
    /\ \E d \in Documents : controls' = d /\ initial' = d
    /\ depth' = CallerFrames(op) + 1
    /\ nfound' = 0 /\ idx' = 0 /\ passClicks' = 0 /\ stales' = 0
    /\ pc' = "scan"

\* A public method is called; its first statement is _validate_authentication().
Call(o) ==
    /\ pc = "idle"
    /\ op' = o
    /\ IF _validate_authentication(authenticated) = "Forbidden"
          THEN Raise("Forbidden")
          ELSE /\ pc' = IF o = "go_to_profile" THEN "navigate" ELSE "locate"
               /\ result' = result
    /\ UNCHANGED <<authenticated, touched, section, stage, controls, initial, depth,
                   nfound, idx, passClicks, stales, finished, snapshotOf, parseVars>>

\* go_to_profile: self.browser.get(...)
go_to_profile ==
    /\ pc = "navigate"
    /\ touched' = TRUE
    /\ result' = "ok"
    /\ pc' = "done"
    /\ UNCHANGED <<authenticated, op, section, stage, controls, initial, depth,
                   nfound, idx, passClicks, stales, finished, snapshotOf, parseVars>>

\* _fetch_elements_by_class: WebDriverWait(...).until(presence) elapses.
WaitTimeout ==
    /\ pc = "locate"
    /\ touched' = TRUE
    /\ Raise("TimeoutException")
    /\ UNCHANGED <<authenticated, op, section, stage, controls, initial, depth,
                   nfound, idx, passClicks, stales, finished, snapshotOf, parseVars>>

\* fetch_skills_data: the texts of the elements found.
fetch_skills_data ==
    /\ pc = "locate" /\ op = "fetch_skills_data"
    /\ touched' = TRUE
    /\ result' = "ok"
    /\ pc' = "done"
    /\ UNCHANGED <<authenticated, op, section, stage, controls, initial, depth,
                   nfound, idx, passClicks, stales, finished, snapshotOf, parseVars>>

\* _fetch_arbitrary_section_html / _fetch_experiences_section_html up to the
\* first _expand_items call: n elements of the section class are found.
FetchSection(n) ==
    /\ pc = "locate" /\ op \in SectionOperations
    /\ touched' = TRUE
    /\ IF n = 0
          THEN \* [][0] raises IndexError; section = None has no find_elements...
               /\ Raise(IF op = "fetch_experience_data" THEN "IndexError"
                                                        ELSE "AttributeError")
               /\ UNCHANGED <<section, stage, controls, initial, depth, nfound, idx,
                              passClicks, stales>>
          ELSE /\ section' = FirstOf(n)
               /\ EnterExpander(1)
               /\ result' = result
    /\ UNCHANGED <<authenticated, op, finished, snapshotOf, parseVars>>

\* Line 211 in a frame the stack still has room for.
ScanElements ==
    /\ pc = "scan"
    /\ depth + DriverFrames <= RecursionLimit
    /\ nfound' = Len(controls)
    /\ idx' = 1
    /\ passClicks' = 0
    /\ pc' = "loop"
    /\ UNCHANGED <<authenticated, op, result, touched, section, stage, controls,
                   initial, depth, stales, finished, snapshotOf, parseVars>>

\* Line 211 when the section node itself was replaced: outside every try.
SectionStale ==
    /\ pc = "scan"
    /\ depth + DriverFrames <= RecursionLimit
    /\ Raise("StaleElementReferenceException")
    /\ UNCHANGED <<authenticated, op, touched, section, stage, controls, initial,
                   depth, nfound, idx, passClicks, stales, finished, snapshotOf,
                   parseVars>>

\* Line 211 in a frame the stack has no room for: RecursionError.
RecursionCeiling ==
    /\ pc = "scan"
    /\ depth + DriverFrames > RecursionLimit
    /\ IF OnRecursionError(depth, op) = "raise"
          THEN /\ Raise("RecursionError")
               /\ UNCHANGED <<stage, controls, initial, depth, nfound, idx,
                              passClicks, stales, finished>>
          ELSE \* every frame below returns in turn: the invocation is over
               /\ finished' = Append(finished,
                      [cls |-> ExpanderClasses(op)[stage],
                       on |-> section,
                       passes |-> PassOf(depth, op) - 1])
               /\ result' = result
               /\ IF stage < Len(ExpanderClasses(op))
                     THEN EnterExpander(stage + 1)
                     ELSE /\ pc' = "snapshot"
                          /\ UNCHANGED <<stage, controls, initial, depth, nfound,
                                         idx, passClicks, stales>>
    /\ UNCHANGED <<authenticated, op, touched, section, snapshotOf, parseVars>>

\* get_attribute or click raises StaleElementReferenceException.
StaleElement ==
    /\ pc = "loop" /\ idx <= nfound
    /\ stales < MaxStale
    /\ stales' = stales + 1
    /\ idx' = AfterStale(idx, nfound)
    /\ UNCHANGED <<authenticated, op, pc, result, touched, section, stage, controls,
                   initial, depth, nfound, passClicks, finished, snapshotOf, parseVars>>

\* The test of line 214 is false: nothing is done with the element.
SkipElement ==
    /\ pc = "loop" /\ idx <= nfound
    /\ ~ShouldClick(controls[idx])
    /\ idx' = idx + 1
    /\ UNCHANGED <<authenticated, op, pc, result, touched, section, stage, controls,
                   initial, depth, nfound, passClicks, stales, finished, snapshotOf,
                   parseVars>>

\* The test of line 214 is true and element.click() goes through.  On a control
\* that is not clickable because it is disabled the click has no effect.
ClickElement ==
    /\ pc = "loop" /\ idx <= nfound
    /\ ShouldClick(controls[idx])
    /\ passClicks' = passClicks + 1
    /\ controls' \in ClickEffects(controls, idx)
    /\ idx' = idx + 1
    /\ UNCHANGED <<authenticated, op, pc, result, touched, section, stage, initial,
                   depth, nfound, stales, finished, snapshotOf, parseVars>>

\* The test of line 214 is true and the driver refuses the click on a control
\* that is not displayed: ElementNotInteractableException, caught nowhere.
ClickRefused ==
    /\ pc = "loop" /\ idx <= nfound
    /\ ShouldClick(controls[idx])
    /\ ~controls[idx].clickable
    /\ Raise("ElementNotInteractableException")
    /\ UNCHANGED <<authenticated, op, touched, section, stage, controls, initial,
                   depth, nfound, idx, passClicks, stales, finished, snapshotOf,
                   parseVars>>

\* Lines 221-222: the loop is over, _expand_items calls itself.
Recurse ==
    /\ pc = "loop" /\ idx > nfound
    /\ depth' = depth + 1
    /\ idx' = 0
    /\ pc' = "scan"
    /\ UNCHANGED <<authenticated, op, result, touched, section, stage, controls,
                   initial, nfound, passClicks, stales, finished, snapshotOf, parseVars>>

\* section.get_attribute('innerHTML')
ReadInnerHTML ==
    /\ pc = "snapshot"
    /\ snapshotOf' = section
    /\ result' = "ok"
    /\ pc' = "done"
    /\ UNCHANGED <<authenticated, op, touched, section, stage, controls, initial,
                   depth, nfound, idx, passClicks, stales, finished, parseVars>>

\* The method has returned or raised; the crawler is ready for the next call.
Return ==
    /\ pc = "done"
    /\ op' = "none" /\ pc' = "idle" /\ result' = "none" /\ touched' = FALSE
    /\ section' = 0 /\ stage' = 0 /\ controls' = <<>> /\ initial' = <<>>
    /\ depth' = 0 /\ nfound' = 0 /\ idx' = 0 /\ passClicks' = 0 /\ stales' = 0
    /\ finished' = <<>> /\ snapshotOf' = 0
    /\ UNCHANGED <<authenticated, parseVars>>

Next ==
    \/ \E o \in Operations : Call(o)
    \/ go_to_profile
    \/ WaitTimeout
    \/ fetch_skills_data
    \/ \E n \in 0..MaxSections : FetchSection(n)
    \/ ScanElements
    \/ SectionStale
    \/ RecursionCeiling
    \/ StaleElement
    \/ SkipElement
    \/ ClickElement
    \/ ClickRefused
    \/ Recurse
    \/ ReadInnerHTML
    \/ Return

Spec == Init /\ [][Next]_vars

(***************************************************************************)
(* Text.  A str is a sequence of characters; '' is <<>>.                   *)
(***************************************************************************)
EnDash == "endash"    \* the character U+2013 of split('–')
MidDot == "middot"    \* the character U+00B7
Whitespace == {" ", "\n", "\t"}

RECURSIVE lstrip(_)
lstrip(s) == IF s # <<>> /\ Head(s) \in Whitespace THEN lstrip(Tail(s)) ELSE s

RECURSIVE rstrip(_)
rstrip(s) ==
    IF s # <<>> /\ s[Len(s)] \in Whitespace THEN rstrip(SubSeq(s, 1, Len(s) - 1)) ELSE s

\* str.strip()
strip(s) == rstrip(lstrip(s))

\* Index of the first character of s that is in set, Len(s) + 1 if none.
FirstIn(s, set) ==
    IF \E k \in 1..Len(s) : s[k] \in set
       THEN CHOOSE k \in 1..Len(s) : s[k] \in set /\ \A j \in 1..(k - 1) : s[j] \notin set
       ELSE Len(s) + 1

\* str.split(sep) for a separator of one character: empty parts are kept.
RECURSIVE split_on(_, _)
split_on(s, sep) ==
    LET k == FirstIn(s, {sep})
    IN  IF k > Len(s) THEN <<s>>
        ELSE <<SubSeq(s, 1, k - 1)>> \o split_on(SubSeq(s, k + 1, Len(s)), sep)

\* str.split(): the maximal runs of characters that are not whitespace.
RECURSIVE split(_)
split(s) ==
    LET t == lstrip(s)
        k == FirstIn(t, Whitespace)
    IN  IF t = <<>> THEN <<>>
        ELSE <<SubSeq(t, 1, k - 1)>> \o split(SubSeq(t, k, Len(t)))

\* sub in s
contains(s, sub) ==
    \E k \in 1..(Len(s) + 1 - Len(sub)) : SubSeq(s, k, k + Len(sub) - 1) = sub

\* sep.join(parts)
RECURSIVE join(_, _)
join(sep, parts) ==
    IF parts = <<>> THEN <<>>
    ELSE IF Len(parts) = 1 THEN parts[1]
    ELSE parts[1] \o sep \o join(sep, Tail(parts))

\* str.replace(old, new), old not empty: left to right, without overlap.
RECURSIVE replace(_, _, _)
replace(s, old, new) ==
    IF Len(s) < Len(old) THEN s
    ELSE IF SubSeq(s, 1, Len(old)) = old
            THEN new \o replace(SubSeq(s, Len(old) + 1, Len(s)), old, new)
            ELSE <<Head(s)>> \o replace(Tail(s), old, new)

Last(seq) == seq[Len(seq)]

(***************************************************************************)
(* Markup.  A Tag is represented by what the selectors the parsers use     *)
(* return on it, each list in document order:                              *)
(*   description : get_text() of each .pv-entity__description              *)
(*   location    : the span texts of each .pv-entity__location             *)
(*   h3          : get_text() and the span texts of each h3                *)
(*   summary     : the span texts of each .pv-entity__company-summary-info *)
(*   title       : get_text() of each .pv-entity__secondary-title          *)
(*   dates       : the span texts of each .pv-entity__date-range           *)
(*   roles       : the .pv-entity__role-details tags                       *)
(*   education   : the .pv-entity__summary-info blocks                     *)
(*   certificate : the .pv-certifications__summary-info blocks             *)
(* select() returns descendants, so a tag holds what its descendants hold. *)
(***************************************************************************)
EmptyTag ==
    [description |-> <<>>, location |-> <<>>, h3 |-> <<>>, summary |-> <<>>,
     title |-> <<>>, dates |-> <<>>, roles |-> <<>>, education |-> <<>>,
     certificate |-> <<>>]

\* Two sibling subtrees, a before b.
Merge(a, b) == [f \in DOMAIN EmptyTag |-> a[f] \o b[f]]

RECURSIVE Siblings(_)
Siblings(tags) ==
    IF tags = <<>> THEN EmptyTag ELSE Merge(Head(tags), Siblings(Tail(tags)))

\* BeautifulSoup(html_section, 'lxml'): the snapshot's entries all sit under
\* one <html><body>.
Soup(html_section) == Siblings(html_section)

\* What a parser or a fetch hands back: the records, or the exception raised.
Returned(items) == [status |-> "ok", items |-> items]
Raised(e) == [status |-> e, items |-> <<>>]
Pending == [status |-> "pending", items |-> <<>>]

\* A list built by appending the result of one call per element: the first
\* exception ends it.
Collect(results) ==
    IF \E k \in 1..Len(results) : results[k].status # "ok"
       THEN Raised("IndexError")
       ELSE Returned([k \in 1..Len(results) |-> results[k].items[1]])

(***************************************************************************)
(* Parser                                                                  *)
(***************************************************************************)
SeeLess == <<"s", "e", "e", " ", "l", "e", "s", "s">>
Time == <<"t", "i", "m", "e">>

SpacedCompany(text) == join(<<" ">>, SelectSeq(split(text), LAMBDA w : ~contains(w, Time)))

\* Lines 96-101: the company of a flat entry.
FlatCompany(text) == join(<<>>, SelectSeq(split(text), LAMBDA w : ~contains(w, Time)))

\* Lines 71-76: the description.
Description(text) ==
    join(<<" ">>,
         split(replace(replace(replace(text, <<"\n">>, <<" ">>), SeeLess, <<" ">>),
                       <<" ", " ">>, <<" ">>)))

\* parse_experience(row_content, grouped_content); grouped is <<>> for None,
\* <<tag>> otherwise (a Tag is always truthy).
parse_experience(row, grouped) ==
    LET locationOk == row.location = <<>> \/ row.location[1] # <<>>
        headOk == IF grouped # <<>>
                     THEN /\ row.h3 # <<>> /\ row.h3[1].spans # <<>>
                          /\ grouped[1].summary # <<>>
                          /\ Len(grouped[1].summary[1]) >= 2
                     ELSE row.h3 # <<>> /\ row.title # <<>>
        datesOk == /\ row.dates # <<>>
                   /\ Len(row.dates[1]) >= 2
                   /\ Len(split_on(row.dates[1][2], EnDash)) >= 2
        range == split_on(row.dates[1][2], EnDash)
    IN  IF ~(locationOk /\ headOk /\ datesOk) THEN Raised("IndexError")
        ELSE Returned(<<
            [company |-> IF grouped # <<>>
                            THEN strip(grouped[1].summary[1][2])
                            ELSE FlatCompany(row.title[1]),
             start_date |-> strip(range[1]),
             end_date |-> strip(range[2]),
             position |-> IF grouped # <<>>
                             THEN strip(Last(row.h3[1].spans))
                             ELSE strip(row.h3[1].text),
             location |-> IF row.location # <<>> THEN Last(row.location[1]) ELSE <<>>,
             description |-> IF row.description # <<>>
                                THEN Description(row.description[1])
                                ELSE <<>>] >>)

\* parse_education(row_content)
parse_education(row) ==
    IF row.education = <<>> THEN Raised("IndexError")
    ELSE LET item == row.education[1]
             degreeOk == item.degree = <<>> \/ item.degree[1] # <<>>
             fosOk == item.fos = <<>> \/ item.fos[1] # <<>>
             datesOk == item.dates # <<>> /\ Len(item.dates[1]) >= 2
         IN  IF ~(degreeOk /\ fosOk /\ datesOk) THEN Raised("IndexError")
             ELSE Returned(<<
                 [school |-> IF item.school # <<>> THEN item.school[1] ELSE <<>>,
                  field_of_study |-> IF item.fos # <<>> THEN Last(item.fos[1]) ELSE <<>>,
                  degree |-> IF item.degree # <<>> THEN item.degree[1][1] ELSE <<>>,
                  start_date |-> item.dates[1][1],
                  end_date |-> item.dates[1][2]] >>)

\* parse_certification(row_content); item.len is len(current_item), the number
\* of children of the summary block, item.spans its descendant spans.
parse_certification(row) ==
    IF row.certificate = <<>> THEN Raised("IndexError")
    ELSE LET item == row.certificate[1]
             n == Len(item.spans)
             spansOk == \/ n = 0
                        \/ /\ n >= 2
                           /\ item.len <= 3 \/ n >= 4
                           /\ item.len <= 4 \/ n >= 5
                           /\ item.len <= 5 \/ n >= 6
         IN  IF ~spansOk THEN Raised("IndexError")
             ELSE Returned(<<
                 [company |-> IF n # 0 THEN item.spans[2] ELSE <<>>,
                  title |-> IF item.h3 # <<>> THEN item.h3[1] ELSE <<>>,
                  issue_date |-> IF n = 0 \/ item.len <= 3 THEN <<>> ELSE item.spans[4],
                  due_date |-> IF n = 0 \/ item.len <= 4 THEN <<>> ELSE item.spans[5],
                  credential |-> IF n = 0 \/ item.len <= 5 THEN <<>> ELSE item.spans[6]] >>)

Parse(k, row) ==
    IF k = "education" THEN parse_education(row) ELSE parse_certification(row)

(***************************************************************************)
(* Crawler: from the snapshot to the records                               *)
(***************************************************************************)
\* _get_section_elements: soup.select('html'), whatever the selector argument.
_get_section_elements(html_section) == <<Soup(html_section)>>

\* Iterating the <html> Tag yields its children: the one <body>, which holds
\* the same descendants.
Children(html) == <<html>>

\* isinstance(elements, list) for a bs4 Tag.
IsList(elements) == FALSE

\* _fetch_arbitrary_data after section_method() has returned html_section.
_fetch_arbitrary_data(html_section, k) ==
    LET elements == _get_section_elements(html_section)[1]
    IN  IF ~IsList(elements)
           THEN Parse(k, elements)
           ELSE Collect([i \in 1..Len(elements) |-> Parse(k, elements[i])])

\* Lines 316-322 for one row.
RowExperiences(row) ==
    (IF row.summary # <<>>
        THEN [i \in 1..Len(row.roles) |-> parse_experience(row.roles[i], <<row>>)]
        ELSE <<>>)
    \o (IF row.title # <<>> THEN <<parse_experience(row, <<>>)>> ELSE <<>>)

RECURSIVE ForEachRow(_)
ForEachRow(rows) ==
    IF rows = <<>> THEN <<>> ELSE RowExperiences(Head(rows)) \o ForEachRow(Tail(rows))

\* fetch_experience_data after the snapshot was read.
ExperienceData(html_section) ==
    LET elements == _get_section_elements(html_section)[1]
    IN  Collect(ForEachRow(Children(elements)))

(***************************************************************************)
(* Snapshots the extraction is run on                                      *)
(***************************************************************************)
\* Most top-level entries of a section snapshot.
MaxEntries == 2

\* Most role sub-entries of a grouped experience entry.
MaxRoles == 2

\* Most spans of a certification summary block.
MaxSpans == 6

Engineer == <<"E", "n", "g", "i", "n", "e", "e", "r">>
Manager == <<"M", "a", "n", "a", "g", "e", "r">>
Acme == <<"A", "c", "m", "e">>
Initech == <<"I", "n", "i", "t", "e", "c", "h">>
FullTime == <<"F", "u", "l", "l", "-", "t", "i", "m", "e">>
PartTime == <<"P", "a", "r", "t", "-", "t", "i", "m", "e">>
Jan2020 == <<"J", "a", "n", " ", "2", "0", "2", "0">>
Mar2021 == <<"M", "a", "r", " ", "2", "0", "2", "1">>
Label == <<"l", "a", "b", "e", "l">>

\* 'Full-time · Acme', 'Acme', ' Acme  Initech Part-time\n'
Titles ==
    {FullTime \o <<" ", MidDot, " ">> \o Acme,
     Acme,
     <<" ">> \o Acme \o <<" ", " ">> \o Initech \o <<" ">> \o PartTime \o <<"\n">>}

\* 'Jan 2020 – Mar 2021', 'Jan 2020'
Ranges == {Jan2020 \o <<" ", EnDash, " ">> \o Mar2021, Jan2020}

\* nothing, or 'Engineer\n  Acme see less'
Descriptions == {<<>>, <<Engineer \o <<"\n", " ", " ">> \o Acme \o <<" ">> \o SeeLess>>}

\* <div><h3>position</h3><span class="pv-entity__secondary-title">title</span>
\* <div class="pv-entity__date-range"><span/><span>range</span></div></div>;
\* lxml reads <span/> as an opening tag, so the first span holds the second.
FlatEntry(position, title, range, descriptions) ==
    [EmptyTag EXCEPT !.h3 = <<[text |-> position, spans |-> <<>>]>>,
                     !.title = <<title>>,
                     !.dates = << <<range, range>> >>,
                     !.description = descriptions]

\* One .pv-entity__role-details: <h3><span>label</span><span>position</span></h3>
\* and a date range with a label span.
Role(position, range) ==
    [EmptyTag EXCEPT !.h3 = <<[text |-> Label \o position, spans |-> <<Label, position>>]>>,
                     !.dates = << <<Label, range>> >>]

RoleOf(i) == Role(IF i % 2 = 1 THEN Engineer ELSE Manager, Jan2020 \o <<EnDash>> \o Mar2021)

\* An entry with a .pv-entity__company-summary-info (<h3><span>label</span>
\* <span>company</span></h3>) followed by k role sub-entries.
GroupedEntry(company, k) ==
    LET roles == [i \in 1..k |-> RoleOf(i)]
        head == [EmptyTag EXCEPT
                    !.h3 = <<[text |-> Label \o company, spans |-> <<Label, company>>]>>,
                    !.summary = << <<Label, company>> >>]
    IN  [Merge(head, Siblings(roles)) EXCEPT !.roles = roles]

FlatEntries ==
    {FlatEntry(Engineer, t, r, d) : t \in Titles, r \in Ranges, d \in Descriptions}

GroupedEntries == {GroupedEntry(c, k) : c \in {Acme, Initech}, k \in 0..MaxRoles}

\* An entry that holds both markers: the flat markup first.
BothEntries ==
    {Merge(FlatEntry(Manager, Acme, Jan2020 \o <<EnDash>> \o Mar2021, <<>>),
           GroupedEntry(Initech, k)) : k \in 0..MaxRoles}

ExperienceEntries == FlatEntries \cup GroupedEntries \cup BothEntries \cup {EmptyTag}

\* One education entry: a .pv-entity__summary-info block.
EducationEntry(school, withDegree, dates) ==
    [EmptyTag EXCEPT !.education = <<
        [school |-> <<school>>,
         degree |-> IF withDegree THEN << <<<<"BSc">>>> >> ELSE <<>>,
         fos |-> IF withDegree THEN << <<Label, <<"CS">>>> >> ELSE <<>>,
         dates |-> dates] >>]

EducationEntries ==
    {EducationEntry(s, d, t) :
        s \in {<<"MIT">>, <<"USP">>}, d \in BOOLEAN,
        t \in {<<>>, << <<<<"2010">>>> >>, << <<<<"2010">>, <<"2014">>>> >>}}
    \cup {EmptyTag}

\* One certification entry: a .pv-certifications__summary-info block with n
\* spans.  Either the h3 and the spans are its only children, or it is laid
\* out as on the site: h3 and three p elements separated by whitespace text
\* nodes, nine children.
CertificationEntry(n, withTitle, compact) ==
    [EmptyTag EXCEPT !.certificate = <<
        [h3 |-> IF withTitle THEN << <<"AWS">> >> ELSE <<>>,
         spans |-> [i \in 1..n |-> <<ToString(i)>>],
         len |-> IF compact THEN n + (IF withTitle THEN 1 ELSE 0) ELSE 9] >>]

CertificationEntries ==
    {CertificationEntry(n, h, c) : n \in 0..MaxSpans, h \in BOOLEAN, c \in BOOLEAN}
    \cup {EmptyTag}

Kinds == {"experience", "education", "certification"}

Entries(k) ==
    CASE k = "experience" -> ExperienceEntries
      [] k = "education"  -> EducationEntries
      [] OTHER            -> CertificationEntries

Fragments(k) == UNION {[1..n -> Entries(k)] : n \in 0..MaxEntries}

InitParse ==
    /\ authenticated = TRUE /\ Idle
    /\ \E k \in Kinds : kind = k /\ fragment \in Fragments(k)
    /\ records = Pending

\* fetch_experience_data, from the snapshot on.
ExtractExperience ==
    /\ kind = "experience" /\ records = Pending
    /\ records' = ExperienceData(fragment)
    /\ UNCHANGED <<crawlVars, kind, fragment>>

\* fetch_education_data, from the snapshot on.
ExtractEducation ==
    /\ kind = "education" /\ records = Pending
    /\ records' = _fetch_arbitrary_data(fragment, kind)
    /\ UNCHANGED <<crawlVars, kind, fragment>>

\* fetch_certification_data, from the snapshot on.
ExtractCertification ==
    /\ kind = "certification" /\ records = Pending
    /\ records' = _fetch_arbitrary_data(fragment, kind)
    /\ UNCHANGED <<crawlVars, kind, fragment>>

NextParse == ExtractExperience \/ ExtractEducation \/ ExtractCertification

SpecParse == InitParse /\ [][NextParse]_vars

(***************************************************************************)
(* Claims about the Expander and the section fetchers (checked under Spec) *)
(***************************************************************************)
InExpander == pc \in {"scan", "loop"}

\* The invocations of the running method that have returned, latest last.
LastFinished == finished[Len(finished)]

\* Passes the stack has room for: the frame of pass p sits at depth
\* CallerFrames + p and its scan needs DriverFrames more.
PassCeiling(o) == RecursionLimit - DriverFrames - CallerFrames(o)

\* The document of the expansion scenario: three controls, two of them
\* expanded and one unexpanded, clickable and responding; no control was added
\* and no stale-reference error has occurred in the invocation.
Scenario ==
    /\ Len(initial) = 3 /\ Len(controls) = 3
    /\ Cardinality({i \in 1..3 : initial[i].expanded}) = 2
    /\ \A i \in 1..3 : ~initial[i].expanded =>
                          (initial[i].clickable /\ initial[i].responsive)
    /\ stales = 0

\* C1 (as amended): in the scenario exactly one click goes through in pass 1,
\* every later pass finds all controls expanded and clicks nothing, and the
\* invocation does not stop there: it rescans until the stack is exhausted, so
\* the number of passes is PassCeiling, whatever the document.
C1_ScansUntilCeiling ==
    Scenario =>
        /\ (pc = "loop" /\ PassOf(depth, op) = 1 /\ idx > nfound) => passClicks = 1
        /\ (pc = "loop" /\ PassOf(depth, op) >= 2) =>
               (passClicks = 0 /\ \A i \in 1..3 : controls[i].expanded)
        /\ pc = "snapshot" => LastFinished.passes = PassCeiling(op)

\* C1 witness: the scenario has completed a third pass, without a click.
C1_Witness ==
    /\ Scenario /\ pc = "loop" /\ idx > nfound
    /\ PassOf(depth, op) = 3 /\ passClicks = 0

\* C1 (as claimed): in the scenario the invocation terminates after exactly
\* two passes.
C1_TerminatesAfterTwoPasses ==
    (Scenario /\ pc = "snapshot") => LastFinished.passes = 2

\* C2 (as claimed): a click is dispatched on a control only if, when examined,
\* it is not expanded and it is clickable; so no click at all when every
\* control reports the expanded state.
C2_ClicksOnlyClickable ==
    [][passClicks' = passClicks + 1 =>
          (~controls[idx].expanded /\ controls[idx].clickable)]_vars

\* C3: the passes of an invocation never exceed the recursion limit, every
\* step of an invocation moves it forward (a later element, a deeper frame, or
\* out of the invocation), and the RecursionError that ends it is never handed
\* to the caller.
C3_BoundedByCeiling ==
    /\ [](/\ depth <= RecursionLimit
          /\ InExpander => PassOf(depth, op) <= RecursionLimit
          /\ \A k \in 1..Len(finished) : finished[k].passes <= RecursionLimit
          /\ result # "RecursionError")
    /\ [][InExpander =>
             \/ depth' > depth
             \/ depth' = depth /\ idx' > idx
             \/ ~InExpander'
             \/ stage' > stage]_vars

\* C3 witness: an invocation has returned normally at the ceiling although a
\* control that never reports the expanded state was still being clicked.
C3_Witness ==
    /\ pc = "snapshot" /\ result = "none" /\ passClicks >= 1
    /\ LastFinished.passes = PassCeiling(op)
    /\ \E i \in 1..Len(controls) : ~controls[i].expanded /\ controls[i].clickable

\* C4: a stale-reference error on one element skips that element only: the
\* loop goes on with the next element of the same scan, nothing else changes,
\* nothing is raised to the caller, and a pass ends only past the last element.
C4_StaleSkipsOneElement ==
    /\ [][stales' = stales + 1 =>
             /\ idx' = idx + 1 /\ pc' = "loop" /\ result' = "none"
             /\ depth' = depth /\ nfound' = nfound /\ controls' = controls
             /\ passClicks' = passClicks]_vars
    /\ [][(pc = "loop" /\ pc' = "scan") => idx = nfound + 1]_vars

\* C4 witness: in pass 1 the first element raised the stale-reference error
\* and the second one was then clicked.
C4_Witness ==
    /\ pc = "loop" /\ PassOf(depth, op) = 1 /\ idx = 3
    /\ stales = 1 /\ passClicks = 1
    /\ initial[1].expanded

\* C5: without authentication every public method raises Forbidden before any
\* call on the web driver: no section is located, no control is clicked, no
\* snapshot is read.
C5_ForbiddenBeforeAnyInteraction ==
    ~authenticated =>
        /\ ~touched /\ section = 0 /\ snapshotOf = 0
        /\ controls = <<>> /\ passClicks = 0 /\ finished = <<>>
        /\ pc \in {"idle", "done"}
        /\ pc = "done" => result = "Forbidden"

\* C5 witness: an unauthenticated call has been refused.
C5_Witness ==
    ~authenticated /\ pc = "done" /\ op \in Operations /\ result = "Forbidden"

\* C6: the first element found is the one expanded and the one read; the
\* expanders run in the configured order, each on that element; the snapshot
\* is read only when all of them have returned, and the method is over (no
\* click can follow) once it is read.
C6_ExpandThenSnapshot ==
    /\ pc \in {"scan", "loop", "snapshot"} => section = 1
    /\ \A k \in 1..Len(finished) :
           /\ k <= Len(ExpanderClasses(op))
           /\ finished[k].cls = ExpanderClasses(op)[k]
           /\ finished[k].on = 1
    /\ InExpander => (Len(finished) = stage - 1 /\ snapshotOf = 0)
    /\ pc = "snapshot" => snapshotOf = 0
    /\ snapshotOf # 0 =>
           /\ snapshotOf = 1 /\ pc = "done" /\ result = "ok"
           /\ Len(finished) = Len(ExpanderClasses(op))

\* C6 witness: the experience snapshot has been read after both expanders.
C6_Witness ==
    /\ op = "fetch_experience_data" /\ snapshotOf = 1
    /\ Len(finished) = 2
    /\ finished[1].cls = "inline-show-more-text__button"
    /\ finished[2].cls = "pv-profile-section__see-more-inline"

(***************************************************************************)
(* Claims about the extraction (checked under SpecParse)                   *)
(***************************************************************************)
Extracted(k) == kind = k /\ records # Pending

\* What extraction yields when every top-level entry is parsed on its own.
PerEntry(k) == Collect([i \in 1..Len(fragment) |-> Parse(k, fragment[i])])

\* C7 (as claimed): for an education or certification snapshot of N entries
\* that each parse, extraction returns N records, the i-th one that of the
\* i-th entry.
C7_OneRecordPerEntry ==
    \A k \in {"education", "certification"} :
        (Extracted(k) /\ PerEntry(k).status = "ok") => records = PerEntry(k)

\* C8 (as claimed): each experience entry contributes one record per role
\* sub-entry if it holds the company-summary-info marker, then one more if it
\* holds the secondary-title marker, and the output keeps the entries' order.
C8_AccumulatesPerEntry ==
    (Extracted("experience") /\ Collect(ForEachRow(fragment)).status = "ok")
        => records = Collect(ForEachRow(fragment))

\* The fragment of the flat-entry scenario: h3 'Engineer', secondary title
\* 'Full-time · Acme', date range 'Jan 2020 – Mar 2021'.
ScenarioFragment ==
    <<FlatEntry(Engineer, FullTime \o <<" ", MidDot, " ">> \o Acme,
                Jan2020 \o <<" ", EnDash, " ">> \o Mar2021, <<>>)>>

ScenarioRecord(company) ==
    [company |-> company, position |-> Engineer, start_date |-> Jan2020,
     end_date |-> Mar2021, location |-> <<>>, description |-> <<>>]

RECURSIVE TotalLen(_)
TotalLen(words) == IF words = <<>> THEN 0 ELSE Len(Head(words)) + TotalLen(Tail(words))

\* C9 (as amended): the company of a flat entry is made of the whitespace-
\* separated tokens of the secondary title that do not contain 'time', put
\* together with nothing in between; for the scenario fragment that is one
\* record with company '·Acme' (the '·' token is kept), position 'Engineer',
\* start 'Jan 2020' and end 'Mar 2021'.
C9_FlatCompanyKeepsTokens ==
    /\ (Extracted("experience") /\ fragment = ScenarioFragment)
           => records = Returned(<<ScenarioRecord(<<MidDot>> \o Acme)>>)
    /\ (Extracted("experience") /\ Len(fragment) = 1 /\ fragment[1] \in FlatEntries
            /\ records.status = "ok")
           => LET company == records.items[1].company
                  kept == SelectSeq(split(fragment[1].title[1]),
                                    LAMBDA w : ~contains(w, Time))
              IN  /\ Len(records.items) = 1
                  /\ \A i \in 1..Len(company) : company[i] \notin Whitespace
                  /\ Len(company) = TotalLen(kept)
                  /\ \A i \in 1..Len(kept) : contains(company, kept[i])

\* C9 witness: the scenario fragment has been extracted.
C9_Witness ==
    Extracted("experience") /\ fragment = ScenarioFragment /\ records.status = "ok"

\* C9 (as claimed): the scenario fragment yields company 'Acme'.
C9_ScenarioCompanyIsAcme ==
    (Extracted("experience") /\ fragment = ScenarioFragment)
        => records = Returned(<<ScenarioRecord(Acme)>>)

\* C10 (as claimed): parsing a certification entry never fails; the record
\* has the five keys, and a field is not empty only if the span at its
\* position (the h3 for the title) exists.
C10_CertificationNeverFails ==
    (Extracted("certification") /\ Len(fragment) = 1) =>
        /\ records.status = "ok"
        /\ Len(records.items) = 1
        /\ LET r == records.items[1]
               n == IF fragment[1].certificate = <<>> THEN 0
                    ELSE Len(fragment[1].certificate[1].spans)
           IN  /\ DOMAIN r = {"company", "title", "issue_date", "due_date", "credential"}
               /\ r.company # <<>> => n >= 2
               /\ r.issue_date # <<>> => n >= 4
               /\ r.due_date # <<>> => n >= 5
               /\ r.credential # <<>> => n >= 6
               /\ r.title # <<>> => fragment[1].certificate[1].h3 # <<>>

====
